---- MODULE Spec2Model ----
(***************************************************************************)
(* Model of skriptendruck: the PDF service (services/pdf_service.py), the  *)
(* logging configuration (config/logging.py) and the command line          *)
(* (commands.py).                                                          *)
(*                                                                         *)
(* Python exceptions are modelled as outcomes: a function body evaluates   *)
(* to Return(v) or Raise(e), and each try/except of the source is an       *)
(* operator that maps the raised outcome to what the handler does.  Every  *)
(* call that can fail in the source (I/O, library calls) has a fault       *)
(* point; a call is made with the set F of fault points that fail.         *)
(***************************************************************************)
EXTENDS Integers, Sequences, FiniteSets, TLC

VARIABLES
    files,      \* filesystem: path -> content of the (PDF) file at that path
    tmpFiles,   \* temporary thumbnail PNG files that exist on disk
    calls,      \* number of service calls made so far
    last,       \* record of the most recent service call and its outcome
    logging,    \* the 'skriptendruck' logger, the root logger, the module flag
    settings,   \* the settings object of the configuration
    dirs,       \* directories that exist, as <<base path, name>>
    kinds,      \* of each file a user submits, what it is
    where,      \* of each such file, the directory it is in
    deliverables, \* print-ready documents produced, as <<file, directory>>
    runs,       \* the completed runs of process, in order
    dataFiles,  \* content of the files under data/
    lastCmd,    \* record of the most recent init command or edit
    logTrace,   \* record of the logging calls made and of the last record logged
    workers,    \* of each worker thread, where it is in get_logger/setup_logging
    credStore,  \* the credentials file and the key file
    credLast    \* record of the most recent credentials command

pdfVars == <<files, tmpFiles, calls, last>>

logVars == <<logging, settings>>

processVars == <<kinds, where, deliverables, runs>>

initVars == <<dataFiles, lastCmd>>

logRunVars == <<logTrace, workers>>

credVars == <<credStore, credLast>>

vars ==
    <<files, tmpFiles, calls, last, logging, settings, dirs, kinds, where,
      deliverables, runs, dataFiles, lastCmd, logTrace, workers, credStore,
      credLast>>

----------------------------------------------------------------------------
(* Bounds *)

MaxPages == 2       \* pages of a document that is present initially
MaxCalls == 1       \* service calls in one behaviour
NumFiles == 2       \* files users submit
MaxRuns == 2        \* runs of the process command in one behaviour
MaxCmds == 3        \* init commands and edits of data files in one behaviour
MaxLogCalls == 3    \* calls of setup_logging and get_logger in one behaviour
NumWorkers == 2     \* worker threads that ask for a logger
MaxLen == 4         \* characters of a bind DN or password
MaxCreds == 2       \* credentials commands in one behaviour

----------------------------------------------------------------------------
(* Values *)

None == "None"

\* Optional[int]: NoCount is None, Count(n) is the integer n
NoCount == <<>>
Count(n) == <<n>>

\* the cover sheet of an order, its source document, the deliverable
Paths == {"cover", "doc", "out"}

Return(v) == [kind |-> "return", val |-> v]
Raise(e) == [kind |-> "raise", val |-> e]

Absent == [kind |-> "absent", pages |-> <<>>, enc |-> FALSE]
Corrupt == [kind |-> "corrupt", pages |-> <<>>, enc |-> FALSE]
\* a file opened for writing whose content was not (completely) written
Partial == [kind |-> "partial", pages |-> <<>>, enc |-> FALSE]
Pdf(pages, enc) == [kind |-> "pdf", pages |-> pages, enc |-> enc]

\* the document with n pages that lives at path p before any call
Document(p, n, enc) == Pdf([i \in 1..n |-> <<p, i>>], enc)

InitContents(p) ==
    {Absent, Corrupt, Document(p, MaxPages, TRUE)}
        \cup {Document(p, n, FALSE) : n \in 0..MaxPages}

BlankPage == <<"blank", 0>>

\* The sets of fault points that can fail within one call.  A region is a
\* straight-line stretch of code inside one try block: its first failure
\* leaves the block, so at most one point of a region fails in a call.
FaultPlans(regions) ==
    {F \in SUBSET (UNION regions) :
        \A r \in regions : Cardinality(F \cap r) <= 1}

----------------------------------------------------------------------------
(* pypdf.PdfReader(path): raises unless the file is a readable PDF *)

PdfReader(content, fault) ==
    IF fault THEN Raise("OSError")
    ELSE IF content.kind = "absent" THEN Raise("FileNotFoundError")
    ELSE IF content.kind # "pdf" THEN Raise("PdfReadError")
    ELSE Return(content)

\* reader.pages: not available on an encrypted document
ReaderPages(reader, fault) ==
    IF fault THEN Raise("PdfReadError")
    ELSE IF reader.enc THEN Raise("FileNotDecryptedError")
    ELSE Return(reader.pages)

----------------------------------------------------------------------------
(* PdfService.get_page_count *)

GetPageCountPoints == {{"read", "pages"}}

\* if reader.is_encrypted: return None, True
GetPageCountEncryptedWithCount(reader) ==
    Return(<<Count(Len(reader.pages)), TRUE>>)
GetPageCountEncrypted(reader) == Return(<<NoCount, TRUE>>)

\* except Exception as e: logger.error(...); return None, False
GetPageCountExceptZero(e) == Return(<<Count(0), FALSE>>)
GetPageCountExcept(e) == Return(<<NoCount, FALSE>>)

\* the try block
GetPageCountTry(content, F) ==
    LET reader == PdfReader(content, "read" \in F) IN
    IF reader.kind = "raise" THEN reader
    ELSE IF reader.val.enc THEN GetPageCountEncrypted(reader.val)
    ELSE LET pages == ReaderPages(reader.val, "pages" \in F) IN
         IF pages.kind = "raise" THEN pages
         ELSE Return(<<Count(Len(pages.val)), FALSE>>)

\* the call: its outcome, the exception caught inside it and the log record
\* (level, text) it writes; the error text is formatted from the exception
get_page_count(content, F) ==
    LET try == GetPageCountTry(content, F) IN
    IF try.kind = "raise"
    THEN [out |-> GetPageCountExcept(try.val), cause |-> try.val,
          log |-> <<"ERROR", try.val>>]
    ELSE [out |-> try, cause |-> None,
          log |-> IF try.val[2] THEN <<"WARNING", "encrypted">>
                  ELSE <<"DEBUG", "pages">>]

----------------------------------------------------------------------------
(* PdfService.merge_pdfs *)

MergePoints == {{"mkdir", "read_cover", "read_doc", "open_out", "write"}}

\* except Exception as e: logger.error(...); return False
MergeReraise(e) == Raise(e)
MergeExcept(e) == Return(FALSE)

\* writer.add_page for the cover sheet, add_blank_page, add_page for the document
MergedPagesNoBlank(cover, add_empty_page, doc) == cover \o doc
MergedPages(cover, add_empty_page, doc) ==
    cover \o (IF add_empty_page THEN <<BlankPage>> ELSE <<>>) \o doc

\* with open(output_path, "wb") as f: writer.write(f)
\* opening truncates the file at output_path; a failing write leaves it so
MergeWrite(fs, output_path, pages, F) ==
    IF "open_out" \in F THEN [out |-> Raise("PermissionError"), files |-> fs]
    ELSE IF "write" \in F
    THEN [out |-> Raise("OSError"),
          files |-> [fs EXCEPT ![output_path] = Partial]]
    ELSE [out |-> Return(TRUE),
          files |-> [fs EXCEPT ![output_path] = Pdf(pages, FALSE)]]

\* the try block: outcome and filesystem after it
MergeTry(fs, coversheet_path, document_path, output_path, add_empty_page, F) ==
    IF "mkdir" \in F THEN [out |-> Raise("OSError"), files |-> fs]
    ELSE
    LET cr == PdfReader(fs[coversheet_path], "read_cover" \in F)
        cp == IF cr.kind = "raise" THEN cr ELSE ReaderPages(cr.val, FALSE)
    IN
    IF cp.kind = "raise" THEN [out |-> cp, files |-> fs]
    ELSE
    LET dr == PdfReader(fs[document_path], "read_doc" \in F)
        dp == IF dr.kind = "raise" THEN dr ELSE ReaderPages(dr.val, FALSE)
    IN
    IF dp.kind = "raise" THEN [out |-> dp, files |-> fs]
    ELSE MergeWrite(fs, output_path,
                    MergedPages(cp.val, add_empty_page, dp.val), F)

merge_pdfs(fs, coversheet_path, document_path, output_path, add_empty_page, F) ==
    LET try == MergeTry(fs, coversheet_path, document_path, output_path,
                        add_empty_page, F)
    IN
    IF try.out.kind = "raise"
    THEN [out |-> MergeExcept(try.out.val), cause |-> try.out.val,
          files |-> try.files]
    ELSE [out |-> try.out, cause |-> None, files |-> try.files]

----------------------------------------------------------------------------
(* PdfService._render_page_thumbnail                                       *)
(* A thumbnail path is modelled as a set of temporary files: {} is None,   *)
(* {t} is the path of the temporary file t.                                *)

RenderPoints ==
    {"fitz_import", "fitz_open", "get_pixmap", "tmpfile", "pix_save",
     "doc_close"}

\* except ImportError: return None / except Exception as e: return None
RenderReraise(e) == Raise(e)
RenderExcept(e) == Return({})

\* the try block: outcome, and the temporary files it created on disk
\* (NamedTemporaryFile(delete=False) creates the file newTmp)
RenderTry(content, F, newTmp) ==
    IF "fitz_import" \in F THEN [out |-> Raise("ImportError"), created |-> {}]
    ELSE IF "fitz_open" \in F \/ content.kind # "pdf"
    THEN [out |-> Raise("FileDataError"), created |-> {}]
    ELSE IF content.enc THEN [out |-> Raise("ValueError"), created |-> {}]
    ELSE IF Len(content.pages) = 0 THEN [out |-> Return({}), created |-> {}]
    ELSE IF "get_pixmap" \in F
    THEN [out |-> Raise("RuntimeError"), created |-> {}]
    ELSE IF "tmpfile" \in F THEN [out |-> Raise("OSError"), created |-> {}]
    ELSE IF "pix_save" \in F
    THEN [out |-> Raise("OSError"), created |-> {newTmp}]
    ELSE IF "doc_close" \in F
    THEN [out |-> Raise("RuntimeError"), created |-> {newTmp}]
    ELSE [out |-> Return({newTmp}), created |-> {newTmp}]

render_page_thumbnail(content, F, newTmp) ==
    LET try == RenderTry(content, F, newTmp) IN
    IF try.out.kind = "raise"
    THEN [out |-> RenderExcept(try.out.val), cause |-> try.out.val,
          created |-> try.created]
    ELSE [out |-> try.out, cause |-> None, created |-> try.created]

----------------------------------------------------------------------------
(* PdfService.create_coversheet *)

CoversheetPoints ==
    {RenderPoints, {"mkdir", "draw", "save_open", "save_write"}, {"embed"},
     {"unlink"}}

\* of an order, the source file it was discovered as
Orders == [filepath : Paths \cup {None}]

\* the page drawn, with or without the preview image
CoverPage(preview) == <<"cover", IF preview THEN 1 ELSE 0>>

\* if thumbnail_path: try: ImageReader(...); c.drawImage(...)
\* except Exception as e: logger.warning(...)
\* Return(drawn): whether the preview image is on the page
EmbedExcept(e) == Return(FALSE)

Embed(thumbnail_path, F) ==
    IF thumbnail_path = {} THEN Return(FALSE)
    ELSE IF "embed" \in F THEN EmbedExcept("OSError")
    ELSE Return(TRUE)

\* c.save(): opens output_path for writing and writes the page
CoversheetSave(fs, output_path, page, F) ==
    IF "save_open" \in F THEN [out |-> Raise("PermissionError"), files |-> fs]
    ELSE IF "save_write" \in F
    THEN [out |-> Raise("OSError"),
          files |-> [fs EXCEPT ![output_path] = Partial]]
    ELSE [out |-> Return(TRUE),
          files |-> [fs EXCEPT ![output_path] = Pdf(<<page>>, FALSE)]]

\* except Exception as e: logger.error(...); return False
CoversheetExcept(e) == Return(FALSE)

\* the try block: outcome, filesystem, the value of thumbnail_path when the
\* block is left, the temporary files created, and whether the thumbnail
\* failed (in rendering or in embedding)
CoversheetTry(fs, order, output_path, F, newTmp) ==
    LET none == [out |-> Return({}), cause |-> None, created |-> {}]
        base == [files |-> fs, thumbnail_path |-> {}, created |-> {},
                 thumbFailed |-> FALSE]
    IN
    IF "mkdir" \in F THEN base @@ [out |-> Raise("OSError")]
    ELSE
    LET thumb == IF order.filepath # None /\ fs[order.filepath].kind # "absent"
                 THEN render_page_thumbnail(fs[order.filepath], F, newTmp)
                 ELSE none
        got == [base EXCEPT !.created = thumb.created,
                            !.thumbFailed = thumb.cause # None]
    IN
    IF thumb.out.kind = "raise" THEN got @@ [out |-> thumb.out]
    ELSE
    LET held == [got EXCEPT !.thumbnail_path = thumb.out.val] IN
    IF "draw" \in F THEN held @@ [out |-> Raise("AttributeError")]
    ELSE
    LET embed == Embed(thumb.out.val, F)
        tried == [held EXCEPT !.thumbFailed =
                      @ \/ (thumb.out.val # {} /\ "embed" \in F)]
    IN
    IF embed.kind = "raise" THEN tried @@ [out |-> embed]
    ELSE
    LET save == CoversheetSave(fs, output_path,
                               CoverPage(embed.val), F)
    IN [tried EXCEPT !.files = save.files] @@ [out |-> save.out]

\* finally: if thumbnail_path: try: Path(thumbnail_path).unlink(missing_ok=True)
\* except Exception: pass
UnlinkExcept(e) == Return(None)

CoversheetFinally(tmp, thumbnail_path, F) ==
    IF thumbnail_path = {} THEN [out |-> Return(None), tmp |-> tmp]
    ELSE IF "unlink" \in F
    THEN [out |-> UnlinkExcept("PermissionError"), tmp |-> tmp]
    ELSE [out |-> Return(None), tmp |-> tmp \ thumbnail_path]

create_coversheet(fs, tmp, order, output_path, F, newTmp) ==
    LET try == CoversheetTry(fs, order, output_path, F, newTmp)
        fin == CoversheetFinally(tmp \cup try.created, try.thumbnail_path, F)
        out == IF try.out.kind = "raise" THEN CoversheetExcept(try.out.val)
               ELSE try.out
    IN
    [out |-> IF fin.out.kind = "raise" THEN fin.out ELSE out,
     cause |-> IF try.out.kind = "raise" THEN try.out.val ELSE None,
     files |-> try.files,
     tmp |-> fin.tmp,
     created |-> try.created,
     thumbFailed |-> try.thumbFailed]

----------------------------------------------------------------------------
(* config/logging.py *)

\* level.upper(), for the level names in use
Upper(level) ==
    CASE level = "debug" -> "DEBUG"
      [] level = "info" -> "INFO"
      [] level = "warning" -> "WARNING"
      [] OTHER -> level

\* getattr(logging, level.upper(), logging.INFO)
LogLevel(level) ==
    CASE Upper(level) = "DEBUG" -> 10
      [] Upper(level) = "INFO" -> 20
      [] Upper(level) = "WARNING" -> 30
      [] Upper(level) = "ERROR" -> 40
      [] Upper(level) = "CRITICAL" -> 50
      [] OTHER -> 20

\* the logging state of a fresh interpreter: _logging_configured = False, the
\* logger has no handlers, level NOTSET and propagates; root is at WARNING
Unconfigured ==
    [configured |-> FALSE, level |-> 0, propagate |-> TRUE, handlers |-> <<>>,
     root_handlers |-> <<>>, root_level |-> 30]

\* the statements of setup_logging, in order

\* logger.handlers.clear()
HandlersKept(hs) == hs
HandlersClear(hs) == <<>>

SetupClear(lg) == [lg EXCEPT !.handlers = HandlersClear(lg.handlers)]

\* logger.setLevel(log_level)
SetupSetLevel(lg, log_level) == [lg EXCEPT !.level = log_level]

\* logger.propagate = False
SetupPropagate(lg) == [lg EXCEPT !.propagate = FALSE]

\* the console handler is built, set to log_level and added
SetupAddConsole(lg, log_level, use_rich) ==
    [lg EXCEPT !.handlers =
        Append(@, [kind |-> IF use_rich THEN "RichHandler" ELSE "StreamHandler",
                   level |-> log_level, file |-> None])]

\* if log_file: the file handler is built, set to DEBUG and added
SetupAddFile(lg, log_file) ==
    IF log_file # None
    THEN [lg EXCEPT !.handlers =
            Append(@, [kind |-> "FileHandler", level |-> LogLevel("DEBUG"),
                       file |-> log_file])]
    ELSE lg

\* the root logger gets a NullHandler if it has no handler, and WARNING
SetupRoot(lg) ==
    [lg EXCEPT !.root_handlers = IF @ = <<>> THEN <<"NullHandler">> ELSE @,
               !.root_level = LogLevel("WARNING")]

\* _logging_configured = True
SetupFlag(lg) == [lg EXCEPT !.configured = TRUE]

setup_logging(lg, level, log_file, use_rich) ==
    SetupFlag(SetupRoot(SetupAddFile(
        SetupAddConsole(
            SetupPropagate(SetupSetLevel(SetupClear(lg), LogLevel(level))),
            LogLevel(level), use_rich),
        log_file)))

\* get_logger that configures the default on every call
GetLoggerReconfigures(lg, name) == setup_logging(lg, "INFO", None, TRUE)

get_logger(lg, name) ==
    IF ~lg.configured THEN setup_logging(lg, "INFO", None, TRUE) ELSE lg

\* logger = get_logger("cli") / get_logger("pdf_service") run when the
\* modules are imported, before any command or service call
LoggingAtImport == get_logger(get_logger(Unconfigured, "pdf_service"), "cli")

\* the settings of an installation that configures nothing
LogIdle ==
    /\ logging = LoggingAtImport
    /\ settings = [log_level |-> "INFO", log_file |-> None,
                   parallel_processing |-> TRUE]

LogInit ==
    /\ logging = LoggingAtImport
    /\ \E log_level \in {"INFO", "warning"},
          log_file \in {None, "skriptendruck.log"} :
        settings = [log_level |-> log_level, log_file |-> log_file,
                    parallel_processing |-> TRUE]

----------------------------------------------------------------------------
(* The service under calls with arbitrary arguments and faults *)

NoCall ==
    [op |-> "none", args |-> <<>>, out |-> Return(None), cause |-> None,
     pre |-> <<>>, created |-> {}, thumbFailed |-> FALSE, plain |-> None,
     log |-> <<>>]

\* Before the calls: the source document of an order is anything a user may
\* have submitted; its cover sheet and its deliverable may exist from an
\* earlier run.
PdfInit ==
    /\ \E cover \in {Absent, Pdf(<<CoverPage(FALSE)>>, FALSE)},
          doc \in InitContents("doc"),
          deliverable \in {Absent, Document("out", 1, FALSE)} :
        files = [p \in Paths |->
                    IF p = "cover" THEN cover
                    ELSE IF p = "doc" THEN doc ELSE deliverable]
    /\ tmpFiles = {}
    /\ calls = 0
    /\ last = NoCall

\* no service call is made
PdfIdle ==
    /\ files = [p \in Paths |-> Absent]
    /\ tmpFiles = {}
    /\ calls = 0
    /\ last = NoCall

CallGetPageCount ==
    /\ calls < MaxCalls
    /\ \E pdf_path \in Paths, F \in FaultPlans(GetPageCountPoints) :
       \E r \in {get_page_count(files[pdf_path], F)} :
        last' = [NoCall EXCEPT !.op = "get_page_count",
                               !.args = [pdf_path |-> pdf_path],
                               !.out = r.out, !.cause = r.cause,
                               !.pre = files, !.log = r.log]
    /\ calls' = calls + 1
    /\ UNCHANGED <<files, tmpFiles>>
    /\ UNCHANGED <<logVars, dirs, processVars, initVars, logRunVars, credVars>>

\* plain: the same call for an order without a source file, for which no
\* thumbnail is attempted
CallCreateCoversheet ==
    /\ calls < MaxCalls
    /\ \E order \in Orders, output_path \in Paths,
          F \in FaultPlans(CoversheetPoints) :
       \E r \in {create_coversheet(files, tmpFiles, order, output_path, F,
                                   calls + 1)},
          plain \in {create_coversheet(files, tmpFiles,
                                       [order EXCEPT !.filepath = None],
                                       output_path, F, calls + 1)} :
        /\ files' = r.files
        /\ tmpFiles' = r.tmp
        /\ last' = [NoCall EXCEPT !.op = "create_coversheet",
                                  !.args = [order |-> order,
                                            output_path |-> output_path],
                                  !.out = r.out, !.cause = r.cause,
                                  !.pre = files, !.created = r.created,
                                  !.thumbFailed = r.thumbFailed,
                                  !.plain = plain.out]
    /\ calls' = calls + 1
    /\ UNCHANGED <<logVars, dirs, processVars, initVars, logRunVars, credVars>>

CallMergePdfs ==
    /\ calls < MaxCalls
    /\ \E coversheet_path \in Paths, document_path \in Paths,
          output_path \in Paths, add_empty_page \in BOOLEAN,
          F \in FaultPlans(MergePoints) :
       \E r \in {merge_pdfs(files, coversheet_path, document_path,
                            output_path, add_empty_page, F)} :
        /\ files' = r.files
        /\ last' = [NoCall EXCEPT !.op = "merge_pdfs",
                                  !.args = [coversheet_path |-> coversheet_path,
                                            document_path |-> document_path,
                                            output_path |-> output_path,
                                            add_empty_page |-> add_empty_page],
                                  !.out = r.out, !.cause = r.cause,
                                  !.pre = files]
    /\ calls' = calls + 1
    /\ UNCHANGED tmpFiles
    /\ UNCHANGED <<logVars, dirs, processVars, initVars, logRunVars, credVars>>

PdfNext == CallGetPageCount \/ CallCreateCoversheet \/ CallMergePdfs

----------------------------------------------------------------------------
(* FileOrganizer and OrderPipeline: the directory tree, discovery and       *)
(* routing of orders, as the specification describes them                   *)

DefaultBase == "."

\* the directory process reads by default (help text of --orders-dir)
InputDir == "01_Auftraege"

\* an orders directory given with --orders-dir, outside the directory tree
ExternDir == "extern"

ErrorStatuses ==
    {"error_invalid_filename", "error_user_not_found", "error_blocked",
     "error_too_few_pages", "error_too_many_pages",
     "error_password_protected", "error_other"}

Statuses == {"processed", "manual_review"} \cup ErrorStatuses

\* where the router puts the source file of an order in a terminal status
Destination(status) ==
    CASE status = "processed" -> "03_Originale"
      [] status = "manual_review" -> "05_Manuell"
      [] status = "error_invalid_filename" -> "04_Fehler/ungueltiger_dateiname"
      [] status = "error_user_not_found" -> "04_Fehler/benutzer_nicht_gefunden"
      [] status = "error_blocked" -> "04_Fehler/gesperrt"
      [] status = "error_too_few_pages" -> "04_Fehler/zu_wenig_seiten"
      [] status = "error_too_many_pages" -> "04_Fehler/zu_viele_seiten"
      [] status = "error_password_protected" -> "04_Fehler/passwortgeschuetzt"
      [] OTHER -> "04_Fehler/sonstige"

\* where the deliverable of a PROCESSED order goes
PrintDir(color) ==
    IF color = "sw" THEN "02_Druckfertig/sw" ELSE "02_Druckfertig/farbig"

TreeDirs ==
    {InputDir, "02_Druckfertig", "02_Druckfertig/sw",
     "02_Druckfertig/sw/gedruckt", "02_Druckfertig/farbig",
     "02_Druckfertig/farbig/gedruckt", "05_Manuell", "04_Fehler"}
        \cup {Destination(st) : st \in Statuses}

\* Path.mkdir(parents=True, exist_ok=...)
Mkdir(ds, d, exist_ok) ==
    IF d \in ds /\ ~exist_ok THEN Raise("FileExistsError")
    ELSE Return(ds \cup {d})

\* FileOrganizer.ensure_directory_structure: create-if-absent
ensure_directory_structure(ds, base_path) ==
    ds \cup {<<base_path, d>> : d \in TreeDirs}

Files == 1..NumFiles

\* what a submitted file is: not a PDF, or a PDF and the terminal status
\* (and, for a processed order, the color mode) the pipeline gives its order
FileKinds ==
    {[ext |-> "txt", status |-> None, color |-> None]}
        \cup {[ext |-> "pdf", status |-> "processed", color |-> c] :
                 c \in {"sw", "color"}}
        \cup {[ext |-> "pdf", status |-> st, color |-> None] :
                 st \in {"error_blocked", "error_password_protected",
                         "manual_review"}}

\* OrderPipeline.discover_orders: the PDF files directly in orders_dir
discover_orders(ks, wh, orders_dir) ==
    {f \in Files : wh[f] = orders_dir /\ ks[f].ext = "pdf"}

\* OrderPipeline.process_orders: every order reaches its terminal status and,
\* with organize_files, its file is moved to the destination of that status
process_orders(ks, wh, dl, orders, organize_files) ==
    IF organize_files
    THEN [where |-> [f \in Files |->
                        IF f \in orders THEN Destination(ks[f].status)
                        ELSE wh[f]],
          deliverables |->
              dl \cup {<<f, PrintDir(ks[f].color)>> :
                          f \in {g \in orders : ks[g].status = "processed"}}]
    ELSE [where |-> wh, deliverables |-> dl]

----------------------------------------------------------------------------
(* commands.py: process *)

\* organize_files=not no_organize
OrganizeFilesInverted(no_organize) == no_organize
OrganizeFiles(no_organize) == ~no_organize

\* the run: log, settings, tree, discovered orders and the files afterwards
process(lg, st, ds, ks, wh, dl, orders_dir, sequential, no_organize, verbose) ==
    LET dir == IF orders_dir = None THEN InputDir ELSE orders_dir
        orders == discover_orders(ks, wh, dir)
        done == IF orders = {}
                THEN [where |-> wh, deliverables |-> dl]
                ELSE process_orders(ks, wh, dl, orders,
                                    OrganizeFiles(no_organize))
    IN
    [logging |-> setup_logging(lg, IF verbose THEN "DEBUG" ELSE st.log_level,
                               st.log_file, TRUE),
     settings |-> [st EXCEPT !.parallel_processing = ~sequential],
     dirs |-> ensure_directory_structure(ds, DefaultBase),
     where |-> done.where,
     deliverables |-> done.deliverables,
     orders_dir |-> dir,
     found |-> orders]

ProcessIdle ==
    /\ kinds = [f \in Files |-> [ext |-> "txt", status |-> None, color |-> None]]
    /\ where = [f \in Files |-> InputDir]
    /\ deliverables = {}
    /\ runs = <<>>

\* every run of the command completes; no file arrives between the runs
ProcessCommand ==
    /\ Len(runs) < MaxRuns
    /\ \E orders_dir \in {None, ExternDir}, sequential \in BOOLEAN,
          no_organize \in BOOLEAN, verbose \in BOOLEAN :
       \E r \in {process(logging, settings, dirs, kinds, where, deliverables,
                         orders_dir, sequential, no_organize, verbose)} :
        /\ logging' = r.logging
        /\ settings' = r.settings
        /\ dirs' = r.dirs
        /\ where' = r.where
        /\ deliverables' = r.deliverables
        /\ runs' = Append(runs,
                          [orders_dir |-> r.orders_dir,
                           no_organize |-> no_organize,
                           found |-> r.found])
    /\ UNCHANGED <<kinds, pdfVars, initVars, logRunVars, credVars>>

ProcessNext == ProcessCommand

----------------------------------------------------------------------------
(* commands.py: init *)

DataDir == <<"cwd", "data">>

BindingPath == "data/binding_sizes.json"
BlacklistPath == "data/blacklist.txt"
UsersCsvPath == "data/users_fallback.csv"

DataPaths == {BindingPath, BlacklistPath, UsersCsvPath}

\* content of a data file: none, what init writes, what an admin wrote
DataContents == {"absent", "default", "edited"}

\* PricingService.export_default_binding_sizes_json
export_default_binding_sizes_json(fs, path) ==
    [out |-> Return(None),
     dirs |-> fs.dirs \cup {DataDir},
     data |-> [fs.data EXCEPT ![path] = "default"]]

\* if binding_path.exists(): skip, else: export the default table
InitBinding(fs) ==
    IF fs.data[BindingPath] # "absent"
    THEN [out |-> Return(None), dirs |-> fs.dirs, data |-> fs.data]
    ELSE export_default_binding_sizes_json(fs, BindingPath)

\* path.parent.mkdir(parents=True, exist_ok=True); open(path, "w"); f.write
WriteDefault(fs, path) ==
    LET made == Mkdir(fs.dirs, DataDir, TRUE) IN
    IF made.kind = "raise"
    THEN [out |-> made, dirs |-> fs.dirs, data |-> fs.data]
    ELSE [out |-> Return(None), dirs |-> made.val,
          data |-> [fs.data EXCEPT ![path] = "default"]]

\* if blacklist_path.exists(): skip, else: write the header
InitBlacklistOverwrite(fs) == WriteDefault(fs, BlacklistPath)
InitBlacklist(fs) ==
    IF fs.data[BlacklistPath] # "absent"
    THEN [out |-> Return(None), dirs |-> fs.dirs, data |-> fs.data]
    ELSE WriteDefault(fs, BlacklistPath)

\* if users_csv_path.exists(): skip, else: write the header
InitUsers(fs) ==
    IF fs.data[UsersCsvPath] # "absent"
    THEN [out |-> Return(None), dirs |-> fs.dirs, data |-> fs.data]
    ELSE WriteDefault(fs, UsersCsvPath)

\* the command: the first step that raises ends it
init(lg, st, fs, base_path) ==
    LET base == IF base_path = None THEN DefaultBase ELSE base_path
        tree == [out |-> Return(None),
                 dirs |-> ensure_directory_structure(fs.dirs, base),
                 data |-> fs.data]
        binding == InitBinding(tree)
        blacklist == IF binding.out.kind = "raise" THEN binding
                     ELSE InitBlacklist(binding)
        users == IF blacklist.out.kind = "raise" THEN blacklist
                 ELSE InitUsers(blacklist)
    IN
    [logging |-> setup_logging(lg, st.log_level, None, TRUE),
     out |-> users.out, dirs |-> users.dirs, data |-> users.data,
     base |-> base]

NoCmd ==
    [cmd |-> "none", base |-> None, out |-> Return(None),
     pre |-> <<>>, prev |-> <<>>, count |-> 0]

\* the files under data/ are there or not, edited or not; data/ exists if
\* one of them does
InitInit ==
    /\ dataFiles \in [DataPaths -> DataContents]
    /\ \E tree \in {{}, ensure_directory_structure({}, DefaultBase)} :
        dirs = tree \cup (IF \E p \in DataPaths : dataFiles[p] # "absent"
                          THEN {DataDir} ELSE {})
    /\ lastCmd = NoCmd

InitIdle ==
    /\ dataFiles = [p \in DataPaths |-> "absent"]
    /\ lastCmd = NoCmd

InitCommand ==
    /\ lastCmd.count < MaxCmds
    /\ \E base_path \in {None, "other"} :
       \E r \in {init(logging, settings, [dirs |-> dirs, data |-> dataFiles],
                      base_path)} :
        /\ logging' = r.logging
        /\ dirs' = r.dirs
        /\ dataFiles' = r.data
        /\ lastCmd' = [cmd |-> "init", base |-> r.base, out |-> r.out,
                       pre |-> [dirs |-> dirs, data |-> dataFiles],
                       prev |-> [cmd |-> lastCmd.cmd, base |-> lastCmd.base],
                       count |-> lastCmd.count + 1]
    /\ UNCHANGED <<settings, pdfVars, processVars, logRunVars, credVars>>

\* an admin edits or deletes a file under data/
EditData ==
    /\ lastCmd.count < MaxCmds
    /\ \E p \in DataPaths, c \in {"absent", "edited"} :
        /\ dataFiles[p] # c
        /\ dataFiles' = [dataFiles EXCEPT ![p] = c]
        /\ dirs' = IF c = "edited" THEN dirs \cup {DataDir} ELSE dirs
    /\ lastCmd' = [NoCmd EXCEPT !.cmd = "edit", !.count = lastCmd.count + 1]
    /\ UNCHANGED <<logging, settings, pdfVars, processVars, logRunVars, credVars>>

InitNext == InitCommand \/ EditData

----------------------------------------------------------------------------
(* config/logging.py, called repeatedly from one thread *)

LevelNames == {"DEBUG", "INFO", "warning", "verbose"}

LogFiles == {None, "skriptendruck.log"}

LoggerNames == {"cli", "pdf_service"}

\* levels of the records a module logs: debug, info, warning, error
RecordLevels == {10, 20, 30, 40}

\* the level a logger 'skriptendruck.<name>' works with: it has no level of
\* its own, so that of 'skriptendruck' if set, else that of the root logger
EffectiveLevel(lg) == IF lg.level # 0 THEN lg.level ELSE lg.root_level

\* the handlers of 'skriptendruck' that emit a record of level levelno logged
\* through 'skriptendruck.<name>': the logger drops it below its effective
\* level, each handler below its own
Delivered(lg, name, levelno) ==
    IF levelno >= EffectiveLevel(lg)
    THEN {i \in 1..Len(lg.handlers) : levelno >= lg.handlers[i].level}
    ELSE {}

ConsoleHandlers(lg) ==
    {i \in 1..Len(lg.handlers) : lg.handlers[i].kind # "FileHandler"}

FileHandlers(lg) ==
    {i \in 1..Len(lg.handlers) : lg.handlers[i].kind = "FileHandler"}

NoLogCall ==
    [count |-> 0, op |-> "none", pre |-> Unconfigured, setup |-> <<>>,
     explicit |-> <<>>, levelno |-> 0, delivered |-> {}]

NoWorkers ==
    [thr |-> [w \in 1..NumWorkers |->
                [pc |-> "idle", level |-> "INFO", log_file |-> None,
                 log_level |-> 0]],
     completed |-> 0]

LogTraceIdle == logTrace = NoLogCall /\ workers = NoWorkers

\* a fresh interpreter: nothing has asked for a logger yet
LoggingInit ==
    /\ logging = Unconfigured
    /\ settings = [log_level |-> "INFO", log_file |-> None,
                   parallel_processing |-> TRUE]

CallSetupLogging ==
    /\ logTrace.count < MaxLogCalls
    /\ \E level \in LevelNames, log_file \in LogFiles, use_rich \in BOOLEAN :
        /\ logging' = setup_logging(logging, level, log_file, use_rich)
        /\ logTrace' =
              [logTrace EXCEPT
                 !.count = @ + 1, !.op = "setup_logging", !.pre = logging,
                 !.setup = <<[level |-> level, log_file |-> log_file,
                              use_rich |-> use_rich]>>,
                 !.explicit = <<[level |-> level, log_file |-> log_file,
                                 use_rich |-> use_rich]>>]
    /\ UNCHANGED <<settings, dirs, pdfVars, processVars, initVars, workers,
                   credVars>>

CallGetLogger ==
    /\ logTrace.count < MaxLogCalls
    /\ \E name \in LoggerNames :
        /\ logging' = get_logger(logging, name)
        /\ logTrace' =
              [logTrace EXCEPT
                 !.count = @ + 1, !.op = "get_logger", !.pre = logging,
                 !.setup = IF logging.configured THEN @
                           ELSE <<[level |-> "INFO", log_file |-> None,
                                   use_rich |-> TRUE]>>]
    /\ UNCHANGED <<settings, dirs, pdfVars, processVars, initVars, workers,
                   credVars>>

\* a module logs a record through the logger get_logger gave it
Emit ==
    /\ logging.configured
    /\ \E name \in LoggerNames, levelno \in RecordLevels :
        logTrace' =
            [logTrace EXCEPT
               !.op = "emit", !.levelno = levelno, !.pre = logging,
               !.delivered =
                  {logging.handlers[i].kind :
                      i \in Delivered(logging, name, levelno)}]
    /\ UNCHANGED <<logVars, dirs, pdfVars, processVars, initVars, workers,
                   credVars>>

LoggingNext == CallSetupLogging \/ CallGetLogger \/ Emit

----------------------------------------------------------------------------
(* config/logging.py, called from several threads: there is no lock around
   the flag or the statements of setup_logging, so a thread may be preempted
   between any two of them *)

Workers == 1..NumWorkers

At(w, pc) == workers.thr[w].pc = pc

Goto(w, pc) == [workers EXCEPT !.thr[w].pc = pc]

\* a worker calls get_logger while logging is unconfigured
WorkerGetLogger ==
    /\ ~logging.configured
    /\ \E w \in Workers :
        /\ At(w, "idle")
        /\ workers' = Goto(w, "check")
    /\ UNCHANGED <<logVars, dirs, pdfVars, processVars, initVars, logTrace,
                   credVars>>

\* a worker calls setup_logging while logging is unconfigured
WorkerSetupLogging ==
    /\ ~logging.configured
    /\ \E w \in Workers, level \in {"INFO", "DEBUG"}, log_file \in LogFiles :
        /\ At(w, "idle")
        /\ workers' = [workers EXCEPT !.thr[w].pc = "clear",
                                      !.thr[w].level = level,
                                      !.thr[w].log_file = log_file]
    /\ UNCHANGED <<logVars, dirs, pdfVars, processVars, initVars, logTrace,
                   credVars>>

\* if not _logging_configured: setup_logging(level="INFO")
WorkerCheck ==
    /\ \E w \in Workers :
        /\ At(w, "check")
        /\ workers' = IF ~logging.configured
                      THEN [workers EXCEPT !.thr[w].pc = "clear",
                                           !.thr[w].level = "INFO",
                                           !.thr[w].log_file = None]
                      ELSE Goto(w, "done")
    /\ UNCHANGED <<logVars, dirs, pdfVars, processVars, initVars, logTrace,
                   credVars>>

\* log_level = getattr(...); logger.handlers.clear()
WorkerClear ==
    /\ \E w \in Workers :
        /\ At(w, "clear")
        /\ logging' = SetupClear(logging)
        /\ workers' = [workers EXCEPT
                         !.thr[w].pc = "setLevel",
                         !.thr[w].log_level = LogLevel(workers.thr[w].level)]
    /\ UNCHANGED <<settings, dirs, pdfVars, processVars, initVars, logTrace,
                   credVars>>

WorkerSetLevel ==
    /\ \E w \in Workers :
        /\ At(w, "setLevel")
        /\ logging' = SetupSetLevel(logging, workers.thr[w].log_level)
        /\ workers' = Goto(w, "propagate")
    /\ UNCHANGED <<settings, dirs, pdfVars, processVars, initVars, logTrace,
                   credVars>>

WorkerPropagate ==
    /\ \E w \in Workers :
        /\ At(w, "propagate")
        /\ logging' = SetupPropagate(logging)
        /\ workers' = Goto(w, "addConsole")
    /\ UNCHANGED <<settings, dirs, pdfVars, processVars, initVars, logTrace,
                   credVars>>

WorkerAddConsole ==
    /\ \E w \in Workers :
        /\ At(w, "addConsole")
        /\ logging' = SetupAddConsole(logging, workers.thr[w].log_level, TRUE)
        /\ workers' = Goto(w, "addFile")
    /\ UNCHANGED <<settings, dirs, pdfVars, processVars, initVars, logTrace,
                   credVars>>

WorkerAddFile ==
    /\ \E w \in Workers :
        /\ At(w, "addFile")
        /\ logging' = SetupAddFile(logging, workers.thr[w].log_file)
        /\ workers' = Goto(w, "root")
    /\ UNCHANGED <<settings, dirs, pdfVars, processVars, initVars, logTrace,
                   credVars>>

WorkerRoot ==
    /\ \E w \in Workers :
        /\ At(w, "root")
        /\ logging' = SetupRoot(logging)
        /\ workers' = Goto(w, "flag")
    /\ UNCHANGED <<settings, dirs, pdfVars, processVars, initVars, logTrace,
                   credVars>>

\* _logging_configured = True; return logger
WorkerFlag ==
    /\ \E w \in Workers :
        /\ At(w, "flag")
        /\ logging' = SetupFlag(logging)
        /\ workers' = [Goto(w, "done") EXCEPT !.completed = @ + 1]
    /\ UNCHANGED <<settings, dirs, pdfVars, processVars, initVars, logTrace,
                   credVars>>

WorkersNext ==
    \/ WorkerGetLogger \/ WorkerSetupLogging \/ WorkerCheck \/ WorkerClear
    \/ WorkerSetLevel \/ WorkerPropagate \/ WorkerAddConsole
    \/ WorkerAddFile \/ WorkerRoot \/ WorkerFlag

----------------------------------------------------------------------------
(* commands.py: credentials *)

Alphabet == {"a", "b"}

\* the strings an admin types: any length up to MaxLen; two of the same
\* length differ in their last character
Strings ==
    {s \in UNION {[1..n -> Alphabet] : n \in 0..MaxLen} :
        \A i \in 1..(Len(s) - 1) : s[i] = "a"}

BindDns == {s \in Strings : Len(s) \in {2, MaxLen} /\ s[Len(s)] = "a"}

Stars == <<"*", "*", "*">>

\* creds[key][:3] + "***" if len(creds[key]) > 3 else "***"
MaskedFrom3(value) ==
    IF Len(value) >= 3 THEN SubSeq(value, 1, 3) \o Stars ELSE Stars

Masked(value) ==
    IF Len(value) > 3 THEN SubSeq(value, 1, 3) \o Stars ELSE Stars

CredKeys == {"ldap_bind_dn", "ldap_bind_password"}

Creds == [CredKeys -> Strings]

\* the credentials file holds one dict or is absent; the key file is there
\* or not
CredStores == [cred_file : {{}} \cup {{c} : c \in Creds}, key_file : BOOLEAN]

has_credentials(store) == store.cred_file # {}

\* the stored dict, or nothing when it cannot be decrypted
load_credentials(store) == IF store.key_file THEN store.cred_file ELSE {}

save_credentials(store, creds) == [cred_file |-> {creds}, key_file |-> TRUE]

\* action == "check"
CredentialsCheck(store) ==
    [store |-> store, exit_code |-> 0, saved |-> FALSE,
     printed |->
        IF has_credentials(store)
        THEN UNION {{[key |-> key, masked |-> Masked(creds[key])] :
                        key \in CredKeys} : creds \in load_credentials(store)}
        ELSE {}]

\* action == "delete": each of the two files is unlinked if it exists
CredentialsDelete(store) ==
    [store |-> [cred_file |-> {}, key_file |-> FALSE], exit_code |-> 0,
     saved |-> FALSE, printed |-> {}]

\* if password != password_confirm
PasswordsDifferInLength(password, password_confirm) ==
    Len(password) # Len(password_confirm)

PasswordsDiffer(password, password_confirm) == password # password_confirm

\* action == "setup"
CredentialsSetup(store, bind_dn, password, password_confirm) ==
    IF PasswordsDiffer(password, password_confirm)
    THEN [store |-> store, exit_code |-> 1, saved |-> FALSE, printed |-> {}]
    ELSE [store |->
            save_credentials(store,
                [key \in CredKeys |->
                    IF key = "ldap_bind_dn" THEN bind_dn ELSE password]),
          exit_code |-> 0, saved |-> TRUE, printed |-> {}]

\* any other action: two lines are printed
CredentialsUnknown(store) ==
    [store |-> store, exit_code |-> 0, saved |-> FALSE, printed |-> {}]

credentials(lg, st, store, action, bind_dn, password, password_confirm) ==
    LET r == CASE action = "check" -> CredentialsCheck(store)
               [] action = "delete" -> CredentialsDelete(store)
               [] action = "setup" ->
                    CredentialsSetup(store, bind_dn, password, password_confirm)
               [] OTHER -> CredentialsUnknown(store)
    IN  [logging |-> setup_logging(lg, st.log_level, None, TRUE),
         store |-> r.store, exit_code |-> r.exit_code, saved |-> r.saved,
         printed |-> r.printed]

CredActions == {"setup", "check", "delete", "status"}

\* only 'setup' prompts for input
Prompted(action, answers) == IF action = "setup" THEN answers ELSE {<<>>}

NoCredCmd ==
    [cmd |-> "none", count |-> 0, exit_code |-> 0, saved |-> FALSE,
     differ |-> FALSE, password |-> <<>>, printed |-> {},
     pre |-> [cred_file |-> {}, key_file |-> FALSE]]

CredIdle ==
    /\ credStore = [cred_file |-> {}, key_file |-> FALSE]
    /\ credLast = NoCredCmd

\* credentials may have been set up before, and the key may have been lost
CredInit ==
    /\ credStore \in
         {st \in CredStores :
             \A c \in st.cred_file : c["ldap_bind_dn"] \in BindDns}
    /\ credLast = NoCredCmd

CredentialsCommand ==
    /\ credLast.count < MaxCreds
    /\ \E action \in CredActions :
       \E bind_dn \in Prompted(action, BindDns),
          password \in Prompted(action, Strings),
          password_confirm \in Prompted(action, Strings) :
       \E r \in {credentials(logging, settings, credStore, action, bind_dn,
                             password, password_confirm)} :
        /\ logging' = r.logging
        /\ credStore' = r.store
        /\ credLast' =
              [cmd |-> action, count |-> credLast.count + 1,
               exit_code |-> r.exit_code, saved |-> r.saved,
               differ |-> action = "setup" /\ password # password_confirm,
               password |-> IF action = "setup" THEN password ELSE <<>>,
               printed |-> r.printed, pre |-> credStore]
    /\ UNCHANGED <<settings, dirs, pdfVars, processVars, initVars, logRunVars>>

CredentialsNext == CredentialsCommand

----------------------------------------------------------------------------
(* the two places that show the colour mode of an order *)

\* _display_summary: the 'Ziel' column, from order.color_mode.value
SummaryTarget(value) == IF value # None /\ value = "sw" THEN "sw/" ELSE "farbig/"

\* create_coversheet: the 'Druck:' field, from calc.color_mode.value (the
\* sharp s of the label is written ss here)
ColorText(value) == IF value = "color" THEN "Farbe" ELSE "Schwarz-Weiss"

----------------------------------------------------------------------------
(* Specifications *)

\* the PDF service under arbitrary calls
PdfSpecInit ==
    /\ PdfInit /\ LogIdle /\ dirs = {} /\ ProcessIdle /\ InitIdle
    /\ LogTraceIdle /\ CredIdle

Spec == PdfSpecInit /\ [][PdfNext]_vars

\* the process command, run repeatedly over the files users submitted: each
\* file lies in one of the two orders directories
ProcessSpecInit ==
    /\ PdfIdle /\ LogIdle /\ InitIdle /\ LogTraceIdle /\ CredIdle
    /\ dirs = {}
    /\ kinds \in [Files -> FileKinds]
    /\ where \in [Files -> {InputDir, ExternDir}]
    /\ deliverables = {}
    /\ runs = <<>>

SpecProcess == ProcessSpecInit /\ [][ProcessNext]_vars

\* the init command, run repeatedly while an admin edits the data files
InitSpecInit ==
    /\ PdfIdle /\ LogInit /\ InitInit /\ ProcessIdle
    /\ LogTraceIdle /\ CredIdle

SpecInit == InitSpecInit /\ [][InitNext]_vars

\* setup_logging and get_logger called in any order from one thread, and
\* records logged in between
LoggingSpecInit ==
    /\ PdfIdle /\ LoggingInit /\ dirs = {} /\ ProcessIdle /\ InitIdle
    /\ LogTraceIdle /\ CredIdle

SpecLogging == LoggingSpecInit /\ [][LoggingNext]_vars

\* worker threads asking for a logger at the same time
SpecWorkers == LoggingSpecInit /\ [][WorkersNext]_vars

\* the credentials command, run repeatedly
CredSpecInit ==
    /\ PdfIdle /\ LogIdle /\ dirs = {} /\ ProcessIdle /\ InitIdle
    /\ LogTraceIdle /\ CredInit

SpecCredentials == CredSpecInit /\ [][CredentialsNext]_vars

----------------------------------------------------------------------------
(* Claims about the PDF service *)

IsCall(op) == last.op = op

\* C1 (as claimed): when create_coversheet returns, no temporary thumbnail
\* file created during the call exists any more, whatever failed after the
\* file was created.
C1_TempFilesRemoved ==
    IsCall("create_coversheet") => last.created \cap tmpFiles = {}

\* C2 (as claimed): a failed merge_pdfs leaves no partially written file at
\* output_path.
C2_NoPartialOutput ==
    (IsCall("merge_pdfs") /\ last.out = Return(FALSE))
        => files[last.args.output_path] # Partial

\* C3: a successful merge_pdfs leaves at output_path the pages of the cover
\* sheet, then one blank page iff add_empty_page, then the pages of the
\* document, each in its order; the page count is the sum.
C3_MergedPages ==
    (IsCall("merge_pdfs") /\ last.out = Return(TRUE)) =>
        LET cover == last.pre[last.args.coversheet_path].pages
            doc == last.pre[last.args.document_path].pages
            blank == IF last.args.add_empty_page THEN 1 ELSE 0
            merged == files[last.args.output_path]
        IN
        /\ merged.kind = "pdf"
        /\ Len(merged.pages) = Len(cover) + blank + Len(doc)
        /\ SubSeq(merged.pages, 1, Len(cover)) = cover
        /\ \A i \in 1..blank : merged.pages[Len(cover) + i] = BlankPage
        /\ SubSeq(merged.pages, Len(cover) + blank + 1, Len(merged.pages))
               = doc

C3_Witness ==
    /\ IsCall("merge_pdfs") /\ last.out = Return(TRUE)
    /\ last.args.add_empty_page
    /\ last.args.coversheet_path = "cover" /\ last.args.document_path = "doc"
    /\ last.args.output_path = "out"
    /\ Len(files["out"].pages) = 2 + MaxPages

\* C4: a thumbnail failure never fails the cover sheet: whenever the same
\* call returns True for an order without a source file (no thumbnail
\* attempted), create_coversheet returns True and the cover sheet is at
\* output_path, without the preview if the thumbnail failed.
C4_ThumbnailNeverFails ==
    (IsCall("create_coversheet") /\ last.plain = Return(TRUE)) =>
        /\ last.out = Return(TRUE)
        /\ files[last.args.output_path].kind = "pdf"
        /\ last.thumbFailed =>
               files[last.args.output_path].pages = <<CoverPage(FALSE)>>

C4_Witness ==
    /\ IsCall("create_coversheet")
    /\ last.thumbFailed
    /\ last.out = Return(TRUE)
    /\ files[last.args.output_path].pages = <<CoverPage(FALSE)>>

\* C5: get_page_count reports a page count only with encrypted = False, and
\* an encrypted document that could be opened yields (None, True).
C5_CountOnlyIfNotEncrypted ==
    (IsCall("get_page_count") /\ last.out.kind = "return") =>
        /\ last.out.val[1] # NoCount => last.out.val[2] = FALSE
        /\ (last.pre[last.args.pdf_path].enc /\ last.cause = None)
               => last.out.val = <<NoCount, TRUE>>
        /\ last.out.val[2] => last.pre[last.args.pdf_path].enc

C5_Witness ==
    /\ IsCall("get_page_count")
    /\ last.pre[last.args.pdf_path].enc
    /\ last.out = Return(<<NoCount, TRUE>>)

\* C6 (as claimed): the cause of a failed inspection can be obtained from
\* the outcome get_page_count hands to its caller: no inspection of the same
\* filesystem that fails for another cause has the same outcome.
C6_CauseInOutcome ==
    (IsCall("get_page_count") /\ last.cause # None) =>
        \A p \in Paths, F \in FaultPlans(GetPageCountPoints) :
            LET other == get_page_count(last.pre[p], F) IN
            (other.cause # None /\ other.cause # last.cause)
                => other.out # last.out

\* C6 (amended): a corrupt or unreadable file yields the outcome
\* (None, False), which no successful and no encrypted inspection yields;
\* the cause is written to the error log and is not part of the outcome.
C6_FailureOutcome ==
    IsCall("get_page_count") =>
        /\ last.pre[last.args.pdf_path].kind # "pdf" => last.cause # None
        /\ last.cause # None =>
               /\ last.out = Return(<<NoCount, FALSE>>)
               /\ last.log = <<"ERROR", last.cause>>
        /\ last.cause = None => last.out # Return(<<NoCount, FALSE>>)

C6_Witness ==
    /\ IsCall("get_page_count")
    /\ last.pre[last.args.pdf_path] = Corrupt
    /\ last.cause = "PdfReadError"
    /\ last.out = Return(<<NoCount, FALSE>>)

\* C7 (as claimed): after merge_pdfs, successful or failed, the cover sheet
\* file and the document file hold what they held before the call, for
\* every output_path.
C7_InputsUnchanged ==
    IsCall("merge_pdfs") =>
        /\ files[last.args.coversheet_path]
               = last.pre[last.args.coversheet_path]
        /\ files[last.args.document_path] = last.pre[last.args.document_path]

\* C9: get_page_count, create_coversheet and merge_pdfs never raise to
\* their caller: a failure inside is returned as (None, False) or False.
C9_NoExceptionPropagates ==
    /\ last.out.kind = "return"
    /\ (IsCall("get_page_count") /\ last.cause # None)
           => last.out.val[1] = NoCount
    /\ (IsCall("create_coversheet") /\ last.cause # None)
           => last.out.val = FALSE
    /\ (IsCall("merge_pdfs") /\ last.cause # None) => last.out.val = FALSE

C9_Witness ==
    /\ IsCall("merge_pdfs")
    /\ last.cause = "FileNotDecryptedError"
    /\ last.out = Return(FALSE)

----------------------------------------------------------------------------
(* Claims about the commands *)

\* C8 (as claimed): after a completed run of process over a directory, the
\* next run over the same directory discovers no file, whatever options the
\* first run was started with.
C8_SecondRunFindsNothing ==
    \A i \in 2..Len(runs) :
        runs[i].orders_dir = runs[i - 1].orders_dir => runs[i].found = {}

\* C8 (amended): after a completed run of process without --no-organize over
\* a directory, the next run over the same directory discovers no file.
C8_SecondRunAfterOrganize ==
    \A i \in 2..Len(runs) :
        (runs[i].orders_dir = runs[i - 1].orders_dir
            /\ ~runs[i - 1].no_organize)
        => runs[i].found = {}

C8_Witness ==
    /\ Len(runs) >= 2
    /\ runs[1].found # {}
    /\ ~runs[1].no_organize
    /\ runs[2].orders_dir = runs[1].orders_dir
    /\ runs[2].found = {}

\* C10: init never fails because a directory or data file is already there,
\* leaves the content of every existing data file unchanged, and run again
\* with the same base path changes nothing.
C10_InitIdempotent ==
    lastCmd.cmd = "init" =>
        /\ lastCmd.out.kind = "return"
        /\ \A p \in DataPaths :
               lastCmd.pre.data[p] # "absent"
                   => dataFiles[p] = lastCmd.pre.data[p]
        /\ (lastCmd.prev.cmd = "init" /\ lastCmd.prev.base = lastCmd.base)
               => (dirs = lastCmd.pre.dirs /\ dataFiles = lastCmd.pre.data)

C10_Witness ==
    /\ lastCmd.cmd = "init"
    /\ lastCmd.prev.cmd = "init" /\ lastCmd.prev.base = lastCmd.base
    /\ dataFiles[BlacklistPath] = "edited"
    /\ dataFiles[UsersCsvPath] = "default"
    /\ dirs = lastCmd.pre.dirs

----------------------------------------------------------------------------
(* Claims about logging *)

\* C11: after any sequence of setup_logging and get_logger calls the
\* 'skriptendruck' logger has exactly one console handler, exactly one file
\* handler if and only if the most recent setup_logging call (made directly
\* or by get_logger) was given a log_file, no other handler, and does not
\* propagate
C11_NoDuplicateHandlers ==
    logTrace.count > 0 =>
        /\ Cardinality(ConsoleHandlers(logging)) = 1
        /\ Cardinality(FileHandlers(logging)) =
              (IF logTrace.setup[1].log_file # None THEN 1 ELSE 0)
        /\ Len(logging.handlers) =
              Cardinality(ConsoleHandlers(logging))
              + Cardinality(FileHandlers(logging))
        /\ logging.propagate = FALSE

\* C11 witness: setup_logging ran after an earlier configuration with a log
\* file, and was given a log file again
C11_Witness ==
    /\ logTrace.count >= 2
    /\ logTrace.op = "setup_logging"
    /\ FileHandlers(logTrace.pre) # {}
    /\ logTrace.setup[1].log_file # None
    /\ Len(logging.handlers) = 2

\* C12: when a log file is configured, every record of level DEBUG or above
\* logged through a 'skriptendruck.<name>' logger is written to the file,
\* whatever the level given to setup_logging
C12_FileReceivesAll ==
    (logTrace.op = "emit" /\ FileHandlers(logging) # {}
        /\ logTrace.levelno >= LogLevel("DEBUG"))
    => "FileHandler" \in logTrace.delivered

\* C13: get_logger installs the default INFO configuration only when logging
\* is unconfigured; otherwise it leaves level and handlers as they were, so
\* that the configuration is that of the most recent explicit setup_logging
C13_GetLoggerKeepsConfiguration ==
    /\ logTrace.op = "get_logger" =>
          IF logTrace.pre.configured
          THEN logging = logTrace.pre
          ELSE /\ logging.level = 20
               /\ Len(logging.handlers) = 1
               /\ logging.handlers[1].level = 20
               /\ logging.configured
    /\ (logTrace.count > 0 /\ logTrace.explicit # <<>>) =>
          /\ logging.level = LogLevel(logTrace.explicit[1].level)
          /\ logging.handlers[1].level = LogLevel(logTrace.explicit[1].level)
          /\ (FileHandlers(logging) # {}) = (logTrace.explicit[1].log_file # None)

\* C13 witness: get_logger is called after an explicit setup_logging that set
\* DEBUG and a log file, and both are still in effect
C13_Witness ==
    /\ logTrace.op = "get_logger"
    /\ logTrace.pre.configured
    /\ logTrace.explicit # <<>>
    /\ logging.level = 10
    /\ FileHandlers(logging) # {}

\* C14: when workers call get_logger or setup_logging concurrently while
\* logging is unconfigured, once all have returned the logger has exactly one
\* console handler, and from the moment the first setup has completed the
\* logger is never without a handler
C14_OneConsoleHandler ==
    /\ (\A w \in Workers : At(w, "done"))
          => Cardinality(ConsoleHandlers(logging)) = 1
    /\ workers.completed >= 1 => Len(logging.handlers) > 0

----------------------------------------------------------------------------
(* Claims about the credentials command *)

\* C15: in 'setup', if password and confirmation differ, save_credentials is
\* not called, the stored credentials are unchanged and the exit code is 1;
\* credentials are saved only when both are equal; an unknown action changes
\* no stored state
C15_MismatchSavesNothing ==
    /\ (credLast.cmd = "setup" /\ credLast.differ) =>
          /\ ~credLast.saved
          /\ credStore = credLast.pre
          /\ credLast.exit_code = 1
    /\ credLast.saved => (credLast.cmd = "setup" /\ ~credLast.differ)
    /\ credLast.cmd = "status" => credStore = credLast.pre

\* C15 witness: credentials were stored, and a later setup with differing
\* entries left them as they were
C15_Witness ==
    /\ credLast.cmd = "setup" /\ credLast.differ
    /\ credLast.exit_code = 1
    /\ credStore.cred_file # {}
    /\ credStore = credLast.pre

\* C17: 'check' prints of every stored value at most its first 3 characters
\* followed by '***', and only '***' for a value of 3 characters or fewer, so
\* at least one character of every non-empty value is not shown
C17_ValuesMasked ==
    credLast.cmd = "check" =>
        \A creds \in load_credentials(credStore) :
            /\ {line.key : line \in credLast.printed} = CredKeys
            /\ \A line \in credLast.printed :
                 LET value == creds[line.key]
                     shown == Len(line.masked) - 3
                 IN  /\ shown >= 0 /\ shown <= 3
                     /\ SubSeq(line.masked, shown + 1, shown + 3) = Stars
                     /\ SubSeq(line.masked, 1, shown) = SubSeq(value, 1, shown)
                     /\ Len(value) <= 3 => shown = 0
                     /\ value # <<>> => shown < Len(value)

\* C17 witness: check has printed a password of 4 characters with its first 3
\* characters, and a bind DN of 2 characters as '***'
C17_Witness ==
    /\ credLast.cmd = "check"
    /\ \E line \in credLast.printed :
        /\ line.key = "ldap_bind_password" /\ Len(line.masked) = 6
    /\ \E line \in credLast.printed :
        /\ line.key = "ldap_bind_dn" /\ line.masked = Stars
    /\ \E creds \in credStore.cred_file :
        Len(creds["ldap_bind_password"]) = 4 /\ Len(creds["ldap_bind_dn"]) = 2

====
